---- MODULE Spec2Model ----
(***************************************************************************)
(* A model of generate_gallery.py: the discovery of the source images,     *)
(* the two sizing policies, the colour-mode normalisation and the run of   *)
(* main() from argument handling to the writing of index.html.             *)
(*                                                                         *)
(* Text (paths, suffixes, numbers rendered with str) is a sequence of      *)
(* code points, so that sorting, suffix replacement and quoting are        *)
(* computed the way the code computes them.                                *)
(***************************************************************************)
EXTENDS Integers, Sequences, FiniteSets, TLC

VARIABLES
    pc,            \* the statement of main() that runs next
    status,        \* "running", "exit0", "exit1" (return value) or "raised"
    stderr,        \* the message main printed to sys.stderr, "" when none
    args,          \* the argparse namespace
    input_exists,  \* input_dir exists and is a directory
    input_files,   \* the regular files below input_dir (relative paths)
    out_exists,    \* output_dir exists
    disk,          \* the files below output_dir: path -> data
    index_html,    \* <<>> or <<the items index.html was rendered from>>
    out_exists0,   \* out_exists when the run began
    disk0,         \* disk when the run began
    discovered,    \* what discover_images returned
    shuffled,      \* the list after the optional random.shuffle
    images,        \* the list the loop runs over
    idx,           \* position of the loop in images
    items,         \* the output collection
    frame,         \* the opened image of the current iteration
    gallery_size,  \* gallery_size of the current iteration
    lightbox_size, \* lightbox_size of the current iteration
    n_open,        \* Image.open calls of the current iteration
    n_transpose,   \* exif_transpose calls of the current iteration
    started,       \* the images whose iteration began, in order
    call,          \* the arguments of a direct call of a pure function
    ret            \* what that call returned

vars == <<pc, status, stderr, args, input_exists, input_files, out_exists,
          disk, index_html, out_exists0, disk0, discovered, shuffled, images,
          idx, items, frame, gallery_size, lightbox_size, n_open, n_transpose,
          started, call, ret>>

----------------------------------------------------------------------------
(* Bounds of the model. *)

MaxDim == 12
MaxTarget == 6
MaxFiles == 3
MaxLimit == 2

----------------------------------------------------------------------------
(* Program constants. *)

TARGET_ROW_HEIGHT == 320
\* GALLERY_HEIGHT_SCALE = 1.5, kept as the fraction 3/2
GALLERY_HEIGHT_SCALE == <<3, 2>>
LIGHTBOX_MAX_DIMENSION == 3000
GALLERY_AVIF_QUALITY == 75
GALLERY_AVIF_SPEED == 6
LIGHTBOX_AVIF_QUALITY == 85
LIGHTBOX_AVIF_SPEED == 4
DEV_AVIF_QUALITY == 30
DEV_AVIF_SPEED == 10

\* ".jpg", ".jpeg", ".png", ".gif", ".webp", ".bmp", ".tif", ".tiff"
IMAGE_EXTENSIONS ==
    { <<46, 106, 112, 103>>, <<46, 106, 112, 101, 103>>,
      <<46, 112, 110, 103>>, <<46, 103, 105, 102>>,
      <<46, 119, 101, 98, 112>>, <<46, 98, 109, 112>>,
      <<46, 116, 105, 102>>, <<46, 116, 105, 102, 102>> }

\* ".avif"
AvifSuffix == <<46, 97, 118, 105, 102>>

----------------------------------------------------------------------------
(* Arithmetic. *)

Max2(a, b) == IF a >= b THEN a ELSE b

Min2(a, b) == IF a <= b THEN a ELSE b

SetMax(S) == CHOOSE x \in S : \A y \in S : y <= x

\* The sign of the error a floating-point product can carry.
FloatErr == {-1, 0, 1}

(* round(x) for the float x the code computes for num/den (x = a * (b / c)   *)
(* with a * b = num and c = den).  Python rounds a float to the nearest    *)
(* integer, an exact half to the even neighbour.  The float differs from   *)
(* num/den by a few units in the last place: that never moves a value      *)
(* across a half it is not on (it is at least 1/(2*den) away), but a value  *)
(* that is exactly on a half can come out just below it (err = -1), just   *)
(* above it (err = 1) or on it (err = 0).                                  *)
PyRound(num, den, err) ==
    LET q == num \div den
        r == num % den
    IN  IF 2 * r < den THEN q
        ELSE IF 2 * r > den THEN q + 1
        ELSE IF err < 0 THEN q
        ELSE IF err > 0 THEN q + 1
        ELSE IF q % 2 = 0 THEN q ELSE q + 1

----------------------------------------------------------------------------
(* Dimension policy. *)

scaled_size_for_height_no_guard(width, height, target_height, err) ==
    << Max2(1, PyRound(width * target_height, height, err[1])),
       Max2(1, PyRound(height * target_height, height, err[2])) >>

\* err = <<error sign of width * scale, error sign of height * scale>>
scaled_size_for_height(width, height, target_height, err) ==
    IF height <= target_height
    THEN <<width, height>>
    ELSE << Max2(1, PyRound(width * target_height, height, err[1])),
            Max2(1, PyRound(height * target_height, height, err[2])) >>

scaled_size_for_max_dimension_no_floor(width, height, max_dimension, err) ==
    LET largest == Max2(width, height)
    IN  IF largest <= max_dimension
        THEN <<width, height>>
        ELSE << PyRound(width * max_dimension, largest, err[1]),
                PyRound(height * max_dimension, largest, err[2]) >>

scaled_size_for_max_dimension(width, height, max_dimension, err) ==
    LET largest == Max2(width, height)
    IN  IF largest <= max_dimension
        THEN <<width, height>>
        ELSE << Max2(1, PyRound(width * max_dimension, largest, err[1])),
                Max2(1, PyRound(height * max_dimension, largest, err[2])) >>

\* round(TARGET_ROW_HEIGHT * GALLERY_HEIGHT_SCALE): 320 * 1.5 is exact
gallery_target_height ==
    PyRound(TARGET_ROW_HEIGHT * GALLERY_HEIGHT_SCALE[1],
            GALLERY_HEIGHT_SCALE[2], 0)

----------------------------------------------------------------------------
(* Colour modes. *)

\* Modes Pillow opens the supported formats in.
Modes == {"1", "L", "LA", "P", "PA", "RGB", "RGBA", "CMYK", "I;16"}

\* An image is [mode, size, transparency]: transparency is
\* '"transparency" in image.info'.
convert(image, mode) == [image EXCEPT !.mode = mode]

ensure_avif_mode(image) ==
    IF image.mode \in {"RGB", "RGBA"} THEN image
    ELSE LET has_alpha == \/ image.mode \in {"LA", "RGBA"}
                          \/ (image.mode = "P" /\ image.transparency)
         IN  convert(image, IF has_alpha THEN "RGBA" ELSE "RGB")

----------------------------------------------------------------------------
(* Text: a string is the sequence of its code points. *)

\* The index of the last c in s, 0 when there is none (str.rfind, 1-based).
rfind(s, c) ==
    LET hits == {i \in 1..Len(s) : s[i] = c}
    IN  IF hits = {} THEN 0 ELSE SetMax(hits)

\* str < str in Python: by code point, a proper prefix first.
StrLess(a, b) ==
    \E i \in 1..(Min2(Len(a), Len(b)) + 1) :
        /\ \A j \in 1..(i - 1) : a[j] = b[j]
        /\ \/ i > Len(a) /\ i <= Len(b)
           \/ i <= Len(a) /\ i <= Len(b) /\ a[i] < b[i]

lower(s) == [i \in 1..Len(s) |-> IF s[i] \in 65..90 THEN s[i] + 32 ELSE s[i]]

replace(s, old, new) == [i \in 1..Len(s) |-> IF s[i] = old THEN new ELSE s[i]]

\* str.strip(): whitespace off both ends.
strip(s) ==
    LET keep == {i \in 1..Len(s) : s[i] # 32}
    IN  IF keep = {} THEN <<>>
        ELSE SubSeq(s, CHOOSE i \in keep : \A j \in keep : i <= j, SetMax(keep))

RECURSIVE str(_)
\* str(n) for n >= 0: the decimal digits.
str(n) == IF n < 10 THEN <<48 + n>> ELSE str(n \div 10) \o <<48 + (n % 10)>>

HexDigit(d) == IF d < 10 THEN 48 + d ELSE 55 + d

\* Letters, digits and "_.-~" are never quoted.
AlwaysSafe == (65..90) \cup (97..122) \cup (48..57) \cup {95, 46, 45, 126}

RECURSIVE quote(_, _)
\* urllib.parse.quote(s, safe) on ASCII text.
quote(s, safe) ==
    IF s = <<>> THEN <<>>
    ELSE LET c == Head(s)
         IN  (IF c \in AlwaysSafe \cup safe
              THEN <<c>>
              ELSE <<37, HexDigit(c \div 16), HexDigit(c % 16)>>)
             \o quote(Tail(s), safe)

----------------------------------------------------------------------------
(* Paths (pathlib.PurePath on a relative POSIX path). *)

\* Path.name: the last component.
name(path) == SubSeq(path, rfind(path, 47) + 1, Len(path))

\* Path.suffix: from the last dot of the name, unless the dot leads or ends it.
suffix(path) ==
    LET n == name(path)
        i == rfind(n, 46)
    IN  IF 1 < i /\ i < Len(n) THEN SubSeq(n, i, Len(n)) ELSE <<>>

\* Path.stem
stem(path) ==
    LET n == name(path) IN SubSeq(n, 1, Len(n) - Len(suffix(path)))

\* Path.with_suffix
with_suffix(path, suf) ==
    SubSeq(path, 1, Len(path) - Len(suffix(path))) \o suf

\* "Image"
DefaultAlt == <<73, 109, 97, 103, 101>>

alt_text_from_path(path) ==
    LET raw == strip(replace(replace(stem(path), 95, 32), 45, 32))
    IN  IF raw # <<>> THEN raw ELSE DefaultAlt

----------------------------------------------------------------------------
(* The source files a run can find below input_dir. *)

\* "B.JPG": stored 4000x3000 with EXIF orientation 6 (shown 3000x4000)
FileBJpg == <<66, 46, 74, 80, 71>>
\* "a.jpg": 4000x3000
FileAJpg == <<97, 46, 106, 112, 103>>
\* "a.png": 200x150 with an alpha channel
FileAPng == <<97, 46, 112, 110, 103>>
\* "d/my_e-f.gif": 1005x960, palette with a transparency key
FileGif == <<100, 47, 109, 121, 95, 101, 45, 102, 46, 103, 105, 102>>
\* "n.txt": not an image
FileTxt == <<110, 46, 116, 120, 116>>

Catalogue == {FileBJpg, FileAJpg, FileAPng, FileGif, FileTxt}

\* What Image.open finds in a source file.
Content(path) ==
    CASE path = FileBJpg ->
           [mode |-> "RGB", size |-> <<4000, 3000>>, transparency |-> FALSE,
            orientation |-> 6]
      [] path = FileAJpg ->
           [mode |-> "RGB", size |-> <<4000, 3000>>, transparency |-> FALSE,
            orientation |-> 1]
      [] path = FileAPng ->
           [mode |-> "RGBA", size |-> <<200, 150>>, transparency |-> FALSE,
            orientation |-> 1]
      [] path = FileGif ->
           [mode |-> "P", size |-> <<1005, 960>>, transparency |-> TRUE,
            orientation |-> 1]
      [] OTHER ->
           [mode |-> "L", size |-> <<1, 1>>, transparency |-> FALSE,
            orientation |-> 1]

NoFrame ==
    [mode |-> "", size |-> <<0, 0>>, transparency |-> FALSE, orientation |-> 0]

\* ImageOps.exif_transpose: orientations 5 to 8 turn the image by a quarter.
exif_transpose(image) ==
    [image EXCEPT
       !.size = IF image.orientation \in 5..8
                THEN <<image.size[2], image.size[1]>>
                ELSE image.size,
       !.orientation = 1]

\* Image.resize returns a new image of the given size.
resize(image, size) == [image EXCEPT !.size = size]

----------------------------------------------------------------------------
(* The output directory: a set of [path, data], one entry per path. *)

OutPath(root, rel) == [root |-> root, rel |-> rel]

FileData(kind, image, quality, speed) ==
    [kind |-> kind, size |-> image.size, mode |-> image.mode,
     quality |-> quality, speed |-> speed]

\* Writing a file replaces what the path held.
WriteFile(d, path, data) ==
    {f \in d : f.path # path} \cup {[path |-> path, data |-> data]}

\* An entry that was in output_dir before the run: "old"
OldEntry ==
    [path |-> OutPath("", <<111, 108, 100>>),
     data |-> FileData("other", NoFrame, 0, 0)]

FilesAt(d, path) == {f \in d : f.path = path}

----------------------------------------------------------------------------
(* discover_images *)

RECURSIVE sorted(_)
\* list.sort on the relative POSIX path (the keys are distinct).
sorted(S) ==
    IF S = {} THEN <<>>
    ELSE LET first == CHOOSE x \in S : \A y \in S \ {x} : StrLess(x, y)
         IN  <<first>> \o sorted(S \ {first})

discover_images(files) ==
    sorted({path \in files : lower(suffix(path)) \in IMAGE_EXTENSIONS})

\* What random.shuffle can leave in the list.
Shuffles(list) ==
    {p \in [1..Len(list) -> {list[i] : i \in 1..Len(list)}] :
        \A i, j \in 1..Len(list) : i # j => p[i] # p[j]}

----------------------------------------------------------------------------
(* main(): the state before the first statement. *)

NoCall ==
    [fn |-> "", width |-> 0, height |-> 0, target |-> 0, err |-> <<0, 0>>,
     image |-> NoFrame]

NoRet == [done |-> FALSE, size |-> <<0, 0>>, image |-> NoFrame]

\* --limit: <<>> when the option is absent (None), <<n>> when given.
Limits == {<<>>} \cup {<<n>> : n \in 0..MaxLimit}

Args ==
    [dev : BOOLEAN, limit : Limits, overwrite : BOOLEAN, shuffle : BOOLEAN,
     download : BOOLEAN, margin : {-1, 4}]

Init ==
    /\ pc = "check_input"
    /\ status = "running"
    /\ stderr = ""
    /\ args \in Args
    /\ input_exists \in BOOLEAN
    /\ input_files \in {F \in SUBSET Catalogue : Cardinality(F) <= MaxFiles}
    /\ input_exists = FALSE => input_files = {}
    /\ out_exists \in BOOLEAN
    /\ disk \in {{}, {OldEntry}}
    /\ out_exists = FALSE => disk = {}
    /\ index_html = <<>>
    /\ out_exists0 = out_exists
    /\ disk0 = disk
    /\ discovered = <<>>
    /\ shuffled = <<>>
    /\ images = <<>>
    /\ idx = 0
    /\ items = <<>>
    /\ frame = NoFrame
    /\ gallery_size = <<0, 0>>
    /\ lightbox_size = <<0, 0>>
    /\ n_open = 0
    /\ n_transpose = 0
    /\ started = <<>>
    /\ call = NoCall
    /\ ret = NoRet

\* print(message, file=sys.stderr); return 1
Return1(message) == stderr' = message /\ status' = "exit1" /\ pc' = "done"

\* Nothing is returned or printed by this statement.
Goto(label) == pc' = label /\ UNCHANGED <<status, stderr>>

gallery_quality == IF args.dev THEN DEV_AVIF_QUALITY ELSE GALLERY_AVIF_QUALITY
gallery_speed == IF args.dev THEN DEV_AVIF_SPEED ELSE GALLERY_AVIF_SPEED
lightbox_quality == IF args.dev THEN DEV_AVIF_QUALITY ELSE LIGHTBOX_AVIF_QUALITY
lightbox_speed == IF args.dev THEN DEV_AVIF_SPEED ELSE LIGHTBOX_AVIF_SPEED

\* rel_path, gallery_path, lightbox_path and original_path of an image
gallery_rel_path(rel_path) == with_suffix(rel_path, AvifSuffix)
lightbox_rel_path(rel_path) == with_suffix(rel_path, AvifSuffix)
gallery_path(rel_path) == OutPath("gallery", gallery_rel_path(rel_path))
lightbox_path(rel_path) == OutPath("lightbox", lightbox_rel_path(rel_path))
original_path(rel_path) == OutPath("original", rel_path)

----------------------------------------------------------------------------
(* main(): up to the loop. *)

CheckInputDir ==
    /\ pc = "check_input"
    /\ IF ~input_exists
       THEN Return1("Input directory not found")
       ELSE Goto("ensure_output_dir")
    /\ UNCHANGED <<args, input_exists, input_files, out_exists, disk,
                   index_html, out_exists0, disk0, discovered, shuffled,
                   images, idx, items, frame, gallery_size, lightbox_size,
                   n_open, n_transpose, started, call, ret>>

\* ensure_output_dir, and main's handling of its FileExistsError
EnsureOutputDir ==
    /\ pc = "ensure_output_dir"
    /\ IF out_exists /\ ~args.overwrite
       THEN /\ Return1("Output directory already exists")
            /\ UNCHANGED <<out_exists, disk, index_html>>
       ELSE /\ disk' = {}
            /\ index_html' = <<>>
            /\ out_exists' = TRUE
            /\ Goto("copy_static")
    /\ UNCHANGED <<args, input_exists, input_files, out_exists0, disk0,
                   discovered, shuffled, images, idx, items, frame,
                   gallery_size, lightbox_size, n_open, n_transpose, started,
                   call, ret>>

\* shutil.copytree(static_src, output_dir / "static")
CopyStatic ==
    /\ pc = "copy_static"
    /\ disk' = WriteFile(disk, OutPath("static", <<>>),
                         FileData("static", NoFrame, 0, 0))
    /\ pc' = "validate"
    /\ UNCHANGED <<status, stderr, args, input_exists, input_files,
                   out_exists, index_html, out_exists0, disk0, discovered,
                   shuffled, images, idx, items, frame, gallery_size,
                   lightbox_size, n_open, n_transpose, started, call, ret>>

ValidateArgs ==
    /\ pc = "validate"
    /\ IF args.limit # <<>> /\ ~args.dev
       THEN Return1("--limit requires --dev")
       ELSE IF args.limit # <<>> /\ args.limit[1] <= 0
       THEN Return1("--limit must be a positive integer")
       ELSE IF args.margin < 0
       THEN Return1("--margin must be a non-negative integer")
       ELSE Goto("discover")
    /\ UNCHANGED <<args, input_exists, input_files, out_exists, disk,
                   index_html, out_exists0, disk0, discovered, shuffled,
                   images, idx, items, frame, gallery_size, lightbox_size,
                   n_open, n_transpose, started, call, ret>>

Discover ==
    /\ pc = "discover"
    /\ images' = discover_images(input_files)
    /\ discovered' = images'
    /\ pc' = "shuffle"
    /\ UNCHANGED <<shuffled, status, stderr, args, input_exists, input_files,
                   out_exists, disk, index_html, out_exists0, disk0, idx,
                   items, frame, gallery_size, lightbox_size, n_open,
                   n_transpose, started, call, ret>>

Shuffle ==
    /\ pc = "shuffle"
    /\ IF args.shuffle
       THEN images' \in Shuffles(images)
       ELSE images' = images
    /\ shuffled' = images'
    /\ pc' = "limit"
    /\ UNCHANGED <<status, stderr, args, input_exists, input_files,
                   out_exists, disk, index_html, out_exists0, disk0,
                   discovered, idx, items, frame, gallery_size, lightbox_size,
                   n_open, n_transpose, started, call, ret>>

TruncateOffByOne ==
    /\ pc = "limit"
    /\ IF args.limit # <<>>
       THEN images' = SubSeq(images, 1, Min2(args.limit[1] + 1, Len(images)))
       ELSE images' = images
    /\ pc' = "check_empty"
    /\ UNCHANGED <<status, stderr, args, input_exists, input_files,
                   out_exists, disk, index_html, out_exists0, disk0,
                   discovered, shuffled, idx, items, frame, gallery_size,
                   lightbox_size, n_open, n_transpose, started, call, ret>>

\* images[: args.limit] for a limit > 0
Truncate ==
    /\ pc = "limit"
    /\ IF args.limit # <<>>
       THEN images' = SubSeq(images, 1, Min2(args.limit[1], Len(images)))
       ELSE images' = images
    /\ pc' = "check_empty"
    /\ UNCHANGED <<status, stderr, args, input_exists, input_files,
                   out_exists, disk, index_html, out_exists0, disk0,
                   discovered, shuffled, idx, items, frame, gallery_size,
                   lightbox_size, n_open, n_transpose, started, call, ret>>

CheckEmptySkipped ==
    /\ pc = "check_empty"
    /\ Goto("loop")
    /\ idx' = 1
    /\ UNCHANGED <<args, input_exists, input_files, out_exists, disk,
                   index_html, out_exists0, disk0, discovered, shuffled,
                   images, items, frame, gallery_size, lightbox_size, n_open,
                   n_transpose, started, call, ret>>

CheckEmpty ==
    /\ pc = "check_empty"
    /\ IF images = <<>>
       THEN Return1("No images found") /\ idx' = idx
       ELSE Goto("loop") /\ idx' = 1
    /\ UNCHANGED <<args, input_exists, input_files, out_exists, disk,
                   index_html, out_exists0, disk0, discovered, shuffled,
                   images, items, frame, gallery_size, lightbox_size, n_open,
                   n_transpose, started, call, ret>>

----------------------------------------------------------------------------
(* main(): the loop over images. *)

image_path == images[idx]

\* The loop takes the next image, or ends.
LoopHead ==
    /\ pc = "loop"
    /\ IF idx > Len(images)
       THEN /\ pc' = "write_index"
            /\ UNCHANGED <<started, n_open, n_transpose>>
       ELSE /\ pc' = "copy_original"
            /\ started' = Append(started, image_path)
            /\ n_open' = 0
            /\ n_transpose' = 0
    /\ UNCHANGED <<status, stderr, args, input_exists, input_files,
                   out_exists, disk, index_html, out_exists0, disk0,
                   discovered, shuffled, images, idx, items, frame,
                   gallery_size, lightbox_size, call, ret>>

\* shutil.copy2(image_path, original_path) when --download is given
CopyOriginal ==
    /\ pc = "copy_original"
    /\ IF args.download
       THEN disk' = WriteFile(disk, original_path(image_path),
                              FileData("copy", Content(image_path), 0, 0))
       ELSE disk' = disk
    /\ pc' = "open"
    /\ UNCHANGED <<status, stderr, args, input_exists, input_files,
                   out_exists, index_html, out_exists0, disk0, discovered,
                   shuffled, images, idx, items, frame, gallery_size,
                   lightbox_size, n_open, n_transpose, started, call, ret>>

\* with Image.open(image_path) as image
OpenImage ==
    /\ pc = "open"
    /\ frame' = Content(image_path)
    /\ n_open' = n_open + 1
    /\ pc' = "transpose"
    /\ UNCHANGED <<status, stderr, args, input_exists, input_files,
                   out_exists, disk, index_html, out_exists0, disk0,
                   discovered, shuffled, images, idx, items, gallery_size,
                   lightbox_size, n_transpose, started, call, ret>>

\* image = ImageOps.exif_transpose(image)
ExifTranspose ==
    /\ pc = "transpose"
    /\ frame' = exif_transpose(frame)
    /\ n_transpose' = n_transpose + 1
    /\ pc' = "sizes"
    /\ UNCHANGED <<status, stderr, args, input_exists, input_files,
                   out_exists, disk, index_html, out_exists0, disk0,
                   discovered, shuffled, images, idx, items, gallery_size,
                   lightbox_size, n_open, started, call, ret>>

ComputeSizesChained ==
    /\ pc = "sizes"
    /\ gallery_size' \in
          {scaled_size_for_height(frame.size[1], frame.size[2],
                                  gallery_target_height, e) :
              e \in FloatErr \X FloatErr}
    /\ lightbox_size' \in
          {scaled_size_for_max_dimension(gallery_size'[1], gallery_size'[2],
                                         LIGHTBOX_MAX_DIMENSION, e) :
              e \in FloatErr \X FloatErr}
    /\ pc' = "gallery"
    /\ UNCHANGED <<status, stderr, args, input_exists, input_files,
                   out_exists, disk, index_html, out_exists0, disk0,
                   discovered, shuffled, images, idx, items, frame, n_open,
                   n_transpose, started, call, ret>>

\* width, height = image.size, and the two target sizes, for every sign the
\* error of the float products can have
ComputeSizes ==
    /\ pc = "sizes"
    /\ gallery_size' \in
          {scaled_size_for_height(frame.size[1], frame.size[2],
                                  gallery_target_height, e) :
              e \in FloatErr \X FloatErr}
    /\ lightbox_size' \in
          {scaled_size_for_max_dimension(frame.size[1], frame.size[2],
                                         LIGHTBOX_MAX_DIMENSION, e) :
              e \in FloatErr \X FloatErr}
    /\ pc' = "gallery"
    /\ UNCHANGED <<status, stderr, args, input_exists, input_files,
                   out_exists, disk, index_html, out_exists0, disk0,
                   discovered, shuffled, images, idx, items, frame, n_open,
                   n_transpose, started, call, ret>>

\* The image a tier saves: resized when the target differs, then normalised.
TierImage(image, size) ==
    ensure_avif_mode(IF size # image.size THEN resize(image, size) ELSE image)

\* The gallery tier: resize, ensure_avif_mode, save_avif
EncodeGallery ==
    /\ pc = "gallery"
    /\ disk' = WriteFile(disk, gallery_path(image_path),
                         FileData("avif", TierImage(frame, gallery_size),
                                  gallery_quality, gallery_speed))
    /\ pc' = "lightbox"
    /\ UNCHANGED <<status, stderr, args, input_exists, input_files,
                   out_exists, index_html, out_exists0, disk0, discovered,
                   shuffled, images, idx, items, frame, gallery_size,
                   lightbox_size, n_open, n_transpose, started, call, ret>>

\* The lightbox tier: resize, ensure_avif_mode, save_avif
EncodeLightbox ==
    /\ pc = "lightbox"
    /\ disk' = WriteFile(disk, lightbox_path(image_path),
                         FileData("avif", TierImage(frame, lightbox_size),
                                  lightbox_quality, lightbox_speed))
    /\ pc' = "append"
    /\ UNCHANGED <<status, stderr, args, input_exists, input_files,
                   out_exists, index_html, out_exists0, disk0, discovered,
                   shuffled, images, idx, items, frame, gallery_size,
                   lightbox_size, n_open, n_transpose, started, call, ret>>

\* "gallery", "lightbox", "original" followed by "/"
GalleryPrefix == <<103, 97, 108, 108, 101, 114, 121, 47>>
LightboxPrefix == <<108, 105, 103, 104, 116, 98, 111, 120, 47>>
OriginalPrefix == <<111, 114, 105, 103, 105, 110, 97, 108, 47>>

\* The dict appended to items; download is <<>> for None.
Item(rel_path, gsize, lsize, with_download) ==
    [href |-> quote(LightboxPrefix \o lightbox_rel_path(rel_path), {47}),
     src |-> quote(GalleryPrefix \o gallery_rel_path(rel_path), {47}),
     download |-> IF with_download
                  THEN <<quote(OriginalPrefix \o rel_path, {47})>>
                  ELSE <<>>,
     width |-> str(gsize[1]),
     height |-> str(gsize[2]),
     pswp_width |-> str(lsize[1]),
     pswp_height |-> str(lsize[2]),
     alt |-> alt_text_from_path(rel_path)]

AppendItemBeforeLightbox ==
    /\ pc \in {"lightbox", "append"}
    /\ items' = Append(items,
                       Item(image_path, gallery_size, lightbox_size,
                            args.download))
    /\ frame' = NoFrame
    /\ idx' = idx + 1
    /\ pc' = "loop"
    /\ UNCHANGED <<status, stderr, args, input_exists, input_files,
                   out_exists, disk, index_html, out_exists0, disk0,
                   discovered, shuffled, images, gallery_size, lightbox_size,
                   n_open, n_transpose, started, call, ret>>

\* The end of the with block, and items.append
AppendItem ==
    /\ pc = "append"
    /\ items' = Append(items,
                       Item(image_path, gallery_size, lightbox_size,
                            args.download))
    /\ frame' = NoFrame
    /\ idx' = idx + 1
    /\ pc' = "loop"
    /\ UNCHANGED <<status, stderr, args, input_exists, input_files,
                   out_exists, disk, index_html, out_exists0, disk0,
                   discovered, shuffled, images, gallery_size, lightbox_size,
                   n_open, n_transpose, started, call, ret>>

\* write_text(output_dir / "index.html", generate_html(...)); return 0
WriteIndex ==
    /\ pc = "write_index"
    /\ index_html' = <<items>>
    /\ status' = "exit0"
    /\ pc' = "done"
    /\ UNCHANGED <<stderr, args, input_exists, input_files, out_exists, disk,
                   out_exists0, disk0, discovered, shuffled, images, idx,
                   items, frame, gallery_size, lightbox_size, n_open,
                   n_transpose, started, call, ret>>

\* The statements of the loop body that can raise.
RaisingSteps == {"copy_original", "open", "transpose", "gallery", "lightbox"}

\* What a copy2 or save_avif that raises can leave at its path.
PartialWrites ==
    IF pc = "copy_original"
    THEN {disk, WriteFile(disk, original_path(image_path),
                          FileData("partial", NoFrame, 0, 0))}
    ELSE IF pc = "gallery"
    THEN {disk, WriteFile(disk, gallery_path(image_path),
                          FileData("partial", NoFrame, 0, 0))}
    ELSE IF pc = "lightbox"
    THEN {disk, WriteFile(disk, lightbox_path(image_path),
                          FileData("partial", NoFrame, 0, 0))}
    ELSE {disk}

RaiseAndContinue ==
    /\ pc \in RaisingSteps
    /\ pc = "copy_original" => args.download
    /\ disk' \in PartialWrites
    /\ idx' = idx + 1
    /\ pc' = "loop"
    /\ UNCHANGED <<status, stderr, args, input_exists, input_files,
                   out_exists, index_html, out_exists0, disk0, discovered,
                   shuffled, images, items, frame, gallery_size,
                   lightbox_size, n_open, n_transpose, started, call, ret>>

\* An exception in the loop body: nothing in main catches it.
Raise ==
    /\ pc \in RaisingSteps
    /\ pc = "copy_original" => args.download
    /\ disk' \in PartialWrites
    /\ status' = "raised"
    /\ pc' = "done"
    /\ UNCHANGED <<stderr, args, input_exists, input_files, out_exists,
                   index_html, out_exists0, disk0, discovered, shuffled,
                   images, idx, items, frame, gallery_size, lightbox_size,
                   n_open, n_transpose, started, call, ret>>

Next ==
    \/ CheckInputDir
    \/ EnsureOutputDir
    \/ CopyStatic
    \/ ValidateArgs
    \/ Discover
    \/ Shuffle
    \/ Truncate
    \/ CheckEmpty
    \/ LoopHead
    \/ CopyOriginal
    \/ OpenImage
    \/ ExifTranspose
    \/ ComputeSizes
    \/ EncodeGallery
    \/ EncodeLightbox
    \/ AppendItem
    \/ WriteIndex
    \/ Raise

Spec == Init /\ [][Next]_vars

----------------------------------------------------------------------------
(* The pure functions called directly, on arguments drawn from bounded sets. *)

\* (width, height, target) of the examples the documentation gives.
ExampleSizes == {<<4000, 3000, 480>>, <<4000, 3000, 3000>>, <<200, 150, 480>>}

SizeArgs == ((1..MaxDim) \X (1..MaxDim) \X (1..MaxTarget)) \cup ExampleSizes

SizeCalls ==
    {[fn |-> f, width |-> a[1], height |-> a[2], target |-> a[3], err |-> e,
      image |-> NoFrame] :
        f \in {"scaled_size_for_height", "scaled_size_for_max_dimension"},
        a \in SizeArgs, e \in FloatErr \X FloatErr}

ModeCalls ==
    {[fn |-> "ensure_avif_mode", width |-> 0, height |-> 0, target |-> 0,
      err |-> <<0, 0>>,
      image |-> [mode |-> m, size |-> <<640, 480>>, transparency |-> t,
                 orientation |-> 1]] :
        m \in Modes, t \in BOOLEAN}

PureInit ==
    /\ pc = "call"
    /\ status = "running"
    /\ stderr = ""
    /\ args = [dev |-> FALSE, limit |-> <<>>, overwrite |-> FALSE,
               shuffle |-> FALSE, download |-> FALSE, margin |-> 4]
    /\ input_exists = FALSE
    /\ input_files = {}
    /\ out_exists = FALSE
    /\ disk = {}
    /\ index_html = <<>>
    /\ out_exists0 = FALSE
    /\ disk0 = {}
    /\ discovered = <<>>
    /\ shuffled = <<>>
    /\ images = <<>>
    /\ idx = 0
    /\ items = <<>>
    /\ frame = NoFrame
    /\ gallery_size = <<0, 0>>
    /\ lightbox_size = <<0, 0>>
    /\ n_open = 0
    /\ n_transpose = 0
    /\ started = <<>>
    /\ call \in SizeCalls \cup ModeCalls
    /\ ret = NoRet

CallScaledSizeForHeight ==
    /\ pc = "call"
    /\ call.fn = "scaled_size_for_height"
    /\ ret' = [done |-> TRUE,
               size |-> scaled_size_for_height(call.width, call.height,
                                               call.target, call.err),
               image |-> NoFrame]
    /\ pc' = "returned"
    /\ UNCHANGED <<status, stderr, args, input_exists, input_files,
                   out_exists, disk, index_html, out_exists0, disk0,
                   discovered, shuffled, images, idx, items, frame,
                   gallery_size, lightbox_size, n_open, n_transpose, started,
                   call>>

CallScaledSizeForMaxDimension ==
    /\ pc = "call"
    /\ call.fn = "scaled_size_for_max_dimension"
    /\ ret' = [done |-> TRUE,
               size |-> scaled_size_for_max_dimension(call.width, call.height,
                                                      call.target, call.err),
               image |-> NoFrame]
    /\ pc' = "returned"
    /\ UNCHANGED <<status, stderr, args, input_exists, input_files,
                   out_exists, disk, index_html, out_exists0, disk0,
                   discovered, shuffled, images, idx, items, frame,
                   gallery_size, lightbox_size, n_open, n_transpose, started,
                   call>>

CallEnsureAvifMode ==
    /\ pc = "call"
    /\ call.fn = "ensure_avif_mode"
    /\ ret' = [done |-> TRUE, size |-> <<0, 0>>,
               image |-> ensure_avif_mode(call.image)]
    /\ pc' = "returned"
    /\ UNCHANGED <<status, stderr, args, input_exists, input_files,
                   out_exists, disk, index_html, out_exists0, disk0,
                   discovered, shuffled, images, idx, items, frame,
                   gallery_size, lightbox_size, n_open, n_transpose, started,
                   call>>

PureNext ==
    \/ CallScaledSizeForHeight
    \/ CallScaledSizeForMaxDimension
    \/ CallEnsureAvifMode

PureSpec == PureInit /\ [][PureNext]_vars

----------------------------------------------------------------------------
(* Properties of the dimension policy and of the mode normalisation,        *)
(* checked under PureSpec.                                                 *)

Abs(x) == IF x < 0 THEN 0 - x ELSE x

Returned(fn) == ret.done /\ call.fn = fn

\* k is a nearest integer to num/den
Nearest(k, num, den) == 2 * Abs(k * den - num) <= den

(* C1: scaled_size_for_height(w, h, t) returns (w, h) unchanged when        *)
(* h <= t; when h > t the height it returns is exactly t and the width is  *)
(* a nearest integer to w*t/h, raised to 1 when that is 0, and so within 1 *)
(* of w*t/h.  (4000, 3000) with t = 480 gives (640, 480).                  *)
C1_ScaledSizeForHeight ==
    Returned("scaled_size_for_height") =>
        LET w == call.width
            h == call.height
            t == call.target
            out == ret.size
        IN  /\ h <= t => out = <<w, h>>
            /\ h > t =>
                 /\ out[2] = t
                 /\ \E k \in ((w * t) \div h)..((w * t) \div h + 1) :
                        Nearest(k, w * t, h) /\ out[1] = Max2(1, k)
                 /\ Abs(out[1] * h - w * t) < h
            /\ <<w, h, t>> = <<4000, 3000, 480>> => out = <<640, 480>>

\* A downscale whose width is on an exact half, and one floored at 1.
C1_Witness ==
    /\ Returned("scaled_size_for_height")
    /\ call.height > call.target
    /\ \/ /\ 2 * ((call.width * call.target) % call.height) = call.height
          /\ ret.size[1] > 1
       \/ /\ 2 * call.width * call.target < call.height
          /\ ret.size = <<1, call.target>>

(* C2: scaled_size_for_max_dimension(w, h, t) returns (w, h) unchanged     *)
(* when max(w, h) <= t; when max(w, h) > t both numbers it returns are at  *)
(* least 1 and at most t.  (4000, 3000) with t = 3000 gives (3000, 2250).  *)
C2_ScaledSizeForMaxDimension ==
    Returned("scaled_size_for_max_dimension") =>
        LET w == call.width
            h == call.height
            t == call.target
            out == ret.size
        IN  /\ Max2(w, h) <= t => out = <<w, h>>
            /\ Max2(w, h) > t =>
                 /\ Max2(out[1], out[2]) <= t
                 /\ out[1] >= 1
                 /\ out[2] >= 1
            /\ <<w, h, t>> = <<4000, 3000, 3000>> => out = <<3000, 2250>>

\* A downscale whose short side rounds to 0 before the floor at 1.
C2_Witness ==
    /\ Returned("scaled_size_for_max_dimension")
    /\ Max2(call.width, call.height) > call.target
    /\ 2 * Min2(call.width, call.height) * call.target
         < Max2(call.width, call.height)
    /\ Min2(ret.size[1], ret.size[2]) = 1

\* The modes with an alpha channel.
AlphaModes == {"LA", "PA", "RGBA"}

\* An explicit alpha channel, or an indexed image with a transparency key.
CarriesTransparency(image) ==
    \/ image.mode \in AlphaModes
    \/ image.mode = "P" /\ image.transparency

(* C8: for every input mode ensure_avif_mode returns an image of mode RGB  *)
(* or RGBA, and RGBA exactly when the source carried transparency          *)
(* information (an alpha channel, or an indexed transparency key).         *)
C8_ModeFollowsTransparency ==
    Returned("ensure_avif_mode") =>
        /\ ret.image.mode \in {"RGB", "RGBA"}
        /\ ret.image.mode = "RGBA" <=> CarriesTransparency(call.image)

----------------------------------------------------------------------------
(* Properties of a run of main(), checked under Spec.                      *)

\* The files discover_images keeps.
Qualifying == {path \in input_files : lower(suffix(path)) \in IMAGE_EXTENSIONS}

\* (width, height) of a source image once its EXIF orientation is applied.
ShownSize(path) ==
    LET c == Content(path)
    IN  IF c.orientation \in {5, 6, 7, 8}
        THEN <<c.size[2], c.size[1]>>
        ELSE c.size

\* The gallery sizes scaleToHeight allows for a source and a target.
HeightScalings(path, target) ==
    {scaled_size_for_height(ShownSize(path)[1], ShownSize(path)[2], target, e) :
        e \in FloatErr \X FloatErr}

\* The lightbox sizes scaleToMaxDimension allows for a source and a target.
MaxDimensionScalings(path, target) ==
    {scaled_size_for_max_dimension(ShownSize(path)[1], ShownSize(path)[2],
                                   target, e) :
        e \in FloatErr \X FloatErr}

\* The file at path is one finished AVIF whose size reads as (width, height).
AvifOfSize(path, width, height) ==
    /\ FilesAt(disk, path) # {}
    /\ \A f \in FilesAt(disk, path) :
          /\ f.data.kind = "avif"
          /\ str(f.data.size[1]) = width
          /\ str(f.data.size[2]) = height

(* C3: after a run that returns 0, for every record of the output          *)
(* collection the file at the record's gallery path has the record's       *)
(* gallery (width, height) and the file at its lightbox path has the       *)
(* record's lightbox (width, height), whatever the source files are,       *)
(* sources that differ only in their extension included.                   *)
C3_RecordsMatchFiles ==
    status = "exit0" =>
        \A i \in 1..Len(items) :
            /\ AvifOfSize(gallery_path(images[i]),
                          items[i].width, items[i].height)
            /\ AvifOfSize(lightbox_path(images[i]),
                          items[i].pswp_width, items[i].pswp_height)

\* images[i] for i in 1..n, as a set
FirstOf(list, n) == {list[i] : i \in 1..n}

LimitedRun ==
    /\ status = "exit0"
    /\ args.dev
    /\ args.limit # <<>>
    /\ Len(discovered) >= args.limit[1]

IsSorted(list) ==
    \A i, j \in 1..Len(list) : i < j => StrLess(list[i], list[j])

(* C4 as claimed: with --dev and a truncation count N over M >= N          *)
(* discovered images the run processes exactly N images, the first N of    *)
(* the sorted enumeration order, also when shuffling is requested.         *)
C4_FirstNOfEnumeration ==
    LimitedRun =>
        /\ Len(started) = args.limit[1]
        /\ IsSorted(discovered)
        /\ FirstOf(started, Len(started)) = FirstOf(discovered, args.limit[1])

(* C4 as amended: with --dev and a truncation count N over M >= N          *)
(* discovered images the run processes exactly N images: the first N of    *)
(* the sorted enumeration order, in that order, when no shuffle is         *)
(* requested, and the first N of the shuffled list, in that order, when    *)
(* it is (any N of the discovered images can be the ones).                 *)
C4_FirstNOfProcessingOrder ==
    LimitedRun =>
        /\ Len(started) = args.limit[1]
        /\ IsSorted(discovered)
        /\ shuffled \in Shuffles(discovered)
        /\ ~args.shuffle => shuffled = discovered
        /\ started = SubSeq(shuffled, 1, args.limit[1])

\* A shuffled, truncated run that did not process the first of the enumeration.
C4_Witness ==
    /\ LimitedRun
    /\ args.shuffle
    /\ Len(discovered) > args.limit[1]
    /\ discovered[1] \notin FirstOf(started, Len(started))

(* C5: when the processing of an image fails, no later image is started,   *)
(* index.html is not written and the run does not return 0: an image       *)
(* starts only when every image before it has its record, a run that       *)
(* raised has stopped for good without index.html, and index.html and      *)
(* exit code 0 come only with a record for every image of the list.        *)
C5_AbortOnFirstError ==
    /\ Len(started) <= Len(items) + 1
    /\ status = "raised" =>
          /\ pc = "done"
          /\ index_html = <<>>
          /\ ~ENABLED Next
    /\ (status = "exit0" \/ index_html # <<>>) =>
          /\ Len(items) = Len(images)
          /\ Len(started) = Len(images)

\* A failure at an image that has both a predecessor and a successor.
C5_Witness ==
    /\ status = "raised"
    /\ Len(items) >= 1
    /\ Len(started) < Len(images)

\* The messages of the argument checks.
ArgumentErrors ==
    {"--limit requires --dev", "--limit must be a positive integer",
     "--margin must be a non-negative integer"}

\* The messages of the returns that precede the enumeration.
EarlierErrors == ArgumentErrors \cup {"Output directory already exists"}

(* C6: when enumeration finds no qualifying file, the run prints the       *)
(* empty-input message and returns 1 without raising; no image is          *)
(* processed, the output collection stays empty and no index.html is       *)
(* written.                                                                *)
C6_EmptyInputSet ==
    (input_exists /\ Qualifying = {}) =>
        /\ status \in {"running", "exit1"}
        /\ started = <<>>
        /\ items = <<>>
        /\ index_html = <<>>
        /\ pc \in {"check_empty", "loop", "write_index"} => images = <<>>
        /\ (pc = "done" /\ stderr \notin EarlierErrors)
              => (status = "exit1" /\ stderr = "No images found")

\* The empty-input return of a run over a directory that holds a file.
C6_Witness ==
    /\ pc = "done"
    /\ stderr = "No images found"
    /\ input_files # {}
    /\ out_exists

\* The records an image can get: its paths and label, and sizes scaled from
\* its shown size with the gallery and lightbox targets given.
RecordsOf(path, gallery_target, lightbox_target) ==
    {Item(path, g, l, args.download) :
        g \in HeightScalings(path, gallery_target),
        l \in MaxDimensionScalings(path, lightbox_target)}

\* The record just appended is for the image of the iteration, whose two
\* tier files are written and have the sizes the record gives.
AppendedAfterBothTiers ==
    items' # items =>
        /\ pc = "append"
        /\ Len(items') = Len(items) + 1
        /\ items'[Len(items')] \in
              RecordsOf(images[Len(items')], gallery_target_height,
                        LIGHTBOX_MAX_DIMENSION)
        /\ AvifOfSize(gallery_path(images[Len(items')]),
                      items'[Len(items')].width, items'[Len(items')].height)
        /\ AvifOfSize(lightbox_path(images[Len(items')]),
                      items'[Len(items')].pswp_width,
                      items'[Len(items')].pswp_height)

IsPrefix(a, b) == Len(a) <= Len(b) /\ a = SubSeq(b, 1, Len(a))

(* C7: at every point of a run the output collection holds, in order, one  *)
(* record for each image of a prefix of the processing list; a step        *)
(* appends at most one record, removes and reorders none, and appends the  *)
(* record of an image only when both its tier files are written; a run     *)
(* that returns 0 has exactly one record per image of the list.            *)
C7_CollectionIsPrefix ==
    /\ [](/\ Len(items) <= Len(images)
          /\ \A i \in 1..Len(items) :
                items[i] \in RecordsOf(images[i], gallery_target_height,
                                       LIGHTBOX_MAX_DIMENSION)
          /\ status = "exit0" => Len(items) = Len(images))
    /\ [][/\ IsPrefix(items, items')
          /\ pc \in {"loop", "copy_original", "open", "transpose", "sizes",
                     "gallery", "lightbox", "append"} => images' = images
          /\ AppendedAfterBothTiers]_vars

\* Mid-run: one record appended, the next image's gallery tier written.
C7_Witness ==
    /\ pc = "lightbox"
    /\ Len(items) = 1
    /\ Len(images) > 2
    /\ args.shuffle
    /\ images # discovered

(* C9: for every processed image the decode and the orientation            *)
(* normalisation each happen exactly once, before either size is           *)
(* computed; the gallery size is scaleToHeight of the orientation-         *)
(* corrected (width, height) with target 480 and the lightbox size is      *)
(* scaleToMaxDimension of the same (width, height) with target 3000, in    *)
(* the iteration and in every record; the gallery tier leaves the frame    *)
(* the lightbox tier reads as it was.                                      *)
C9_BothTiersFromCorrectedFrame ==
    /\ pc \in {"sizes", "gallery", "lightbox", "append"} =>
          /\ n_open = 1
          /\ n_transpose = 1
          /\ frame.size = ShownSize(image_path)
          /\ frame.mode = Content(image_path).mode
    /\ pc \in {"gallery", "lightbox", "append"} =>
          /\ gallery_size \in HeightScalings(image_path, 480)
          /\ lightbox_size \in MaxDimensionScalings(image_path, 3000)
    /\ \A i \in 1..Len(items) :
          \E g \in HeightScalings(images[i], 480),
             l \in MaxDimensionScalings(images[i], 3000) :
                /\ items[i].width = str(g[1])
                /\ items[i].height = str(g[2])
                /\ items[i].pswp_width = str(l[1])
                /\ items[i].pswp_height = str(l[2])

\* A record of the image stored on its side: 3000x4000 once corrected.
C9_Witness ==
    \E i \in 1..Len(items) :
        /\ images[i] = FileBJpg
        /\ items[i].width = str(360)
        /\ items[i].pswp_height = str(3000)

(* C10: when the arguments are rejected the run returns 1 with no image    *)
(* processed and the output directory is as it was before the run, also    *)
(* with --overwrite: nothing deleted, nothing created.                     *)
C10_RejectionLeavesOutputDir ==
    stderr \in ArgumentErrors =>
        /\ status = "exit1"
        /\ started = <<>>
        /\ out_exists = out_exists0
        /\ disk = disk0

====
